---- MODULE Spec2Model ----
(***************************************************************************)
(* A model of catastrofe: XMLSplitter.split (xml_splitter.py) and          *)
(* CatastroCSVExporter (csv_exporter.py).                                  *)
(*                                                                         *)
(* Three specifications share the variables:                               *)
(*   Spec         one run of XMLSplitter.split() on one document           *)
(*   SpecExtract  extract_bie_data on one BIE and the DictWriter row       *)
(*   SpecExport   one run of CatastroCSVExporter.export()                  *)
(* Each specification leaves the variables of the others at their idle     *)
(* values.                                                                 *)
(***************************************************************************)
EXTENDS Integers, Sequences, FiniteSets, TLC

VARIABLES
    \* ---- XMLSplitter ----
    root,            \* children of the document root, in document order
    malformed,       \* the input file does not parse
    max_size_bytes,  \* self.max_size_bytes
    verbose,         \* self.verbose
    pc,              \* position inside split()
    dat_elements,    \* indices (into root) of the DAT children, in order
    i,               \* index of the next element of dat_elements
    current_part,
    current_root,    \* indices (into root) of the children of current_root
    current_size,
    output_files,    \* list returned by split()
    saved,           \* calls of save_part so far, in order
    \* ---- extract_bie_data ----
    bie,             \* the BIE element: its descendants in document order
    data,            \* the dict returned by extract_bie_data
    row,             \* the line csv.DictWriter writes for data
    xpc,
    \* ---- export ----
    input_files,     \* self.input_files
    everbose,        \* self.verbose of the exporter
    epc,             \* position inside export()
    n,               \* index of the next input file / xml file
    temp_dir,        \* the temporary directory on disk
    xml_files,
    all_data,
    csv,             \* the output file on disk
    csv0,            \* the output file before export() was called
    result           \* how export() ended

splitVars == <<root, malformed, max_size_bytes, verbose, pc, dat_elements, i,
               current_part, current_root, current_size, output_files, saved>>
extractVars == <<bie, data, row, xpc>>
exportVars == <<input_files, everbose, epc, n, temp_dir, xml_files, all_data,
                csv, csv0, result>>
vars == <<splitVars, extractVars, exportVars>>

(***************************************************************************)
(* Bounds                                                                  *)
(***************************************************************************)
MaxChildren == 5
MaxInputs == 2

(***************************************************************************)
(* Helpers on sequences                                                    *)
(***************************************************************************)
SeqsUpTo(S, k) == UNION {[1..m -> S] : m \in 0..k}

RECURSIVE SumSeq(_)
SumSeq(s) == IF s = <<>> THEN 0 ELSE Head(s) + SumSeq(Tail(s))

RECURSIVE Flatten(_)
Flatten(ss) == IF ss = <<>> THEN <<>> ELSE Head(ss) \o Flatten(Tail(ss))

\* the indices of s, ascending
Indices(s) == [k \in 1..Len(s) |-> k]

(***************************************************************************)
(* XML elements of the split document.  A child of the root is             *)
(*   tag    its tag, a sequence of characters                              *)
(*   bytes  the length of its serialisation without its tail               *)
(*   nodes  the number of elements of its subtree, itself included         *)
(*   tail   the length of the text that follows its end tag                *)
(***************************************************************************)
TagFEC == <<"F", "E", "C">>
TagFIN == <<"F", "I", "N">>
TagDAT == <<"D", "A", "T">>
TagUDAT == <<"U", "D", "A", "T">>

ChildKinds ==
    { [tag |-> TagFEC,  bytes |-> 15,   nodes |-> 1,  tail |-> 0],
      [tag |-> TagFIN,  bytes |-> 15,   nodes |-> 1,  tail |-> 5],
      [tag |-> TagDAT,  bytes |-> 300,  nodes |-> 10, tail |-> 0],
      [tag |-> TagUDAT, bytes |-> 800,  nodes |-> 20, tail |-> 1],
      [tag |-> TagDAT,  bytes |-> 2500, nodes |-> 30, tail |-> 0] }

\* the root's own markup: <R a="1" /> when empty, <R a="1"></R> otherwise
RootMarkup(nchildren) == IF nchildren = 0 THEN 11 ELSE 14

MaxSizeKbs == {1, 2}

\* child.tag.endswith('DAT')
EndsWithDAT(tag) ==
    /\ Len(tag) >= 3
    /\ SubSeq(tag, Len(tag) - 2, Len(tag)) = <<"D", "A", "T">>

IsDAT(child) == EndsWithDAT(child.tag)
IsWrapper(child) == ~EndsWithDAT(child.tag)

KbToBytes(max_size_kb) == max_size_kb * 1024

\* estimate_element_size of a child of the root: ET.tostring writes the
\* element and its tail; element.iter() visits every node of the subtree
estimate_element_size(el) == (el.bytes + el.tail) + el.nodes * 4

\* estimate_element_size of a root that holds the children kids (indices)
estimate_root_size(r, kids) ==
    (RootMarkup(Len(kids)) + SumSeq([k \in 1..Len(kids) |-> r[kids[k]].bytes + r[kids[k]].tail]))
    + (1 + SumSeq([k \in 1..Len(kids) |-> r[kids[k]].nodes])) * 4

\* create_base_structure: the non-DAT children, in order
create_base_structure(r) == SelectSeq(Indices(r), LAMBDA k : IsWrapper(r[k]))

\* [elem for elem in root if elem.tag.endswith('DAT')]
find_dat_elements(r) == SelectSeq(Indices(r), LAMBDA k : IsDAT(r[k]))

header_overhead == 100

\* the test that seals the current part before the next element
MustSeal(size, element_size, max_bytes, len_root) ==
    size + element_size + header_overhead > max_bytes /\ len_root > 2

\* the test that saves the last part
HasElements(len_root) == len_root > 2

NextPartSkips(part) == part + 2

NextPart(part) == part + 1

\* the path save_part writes: <stem>_part_<NNN>.xml
PartPath(part_number) == <<"stem", "_part_", part_number, ".xml">>

\* ET.indent(tree, space="  ") on a root holding kids: every child's tail
\* becomes "\n  " and the last child's "\n" (the children of r are shared
\* with the source document)
Indent(r, kids) ==
    [k \in 1..Len(r) |->
        IF \E j \in 1..Len(kids) : kids[j] = k
        THEN [r[k] EXCEPT !.tail = IF kids[Len(kids)] = k THEN 1 ELSE 3]
        ELSE r[k]]

\* the record of one save_part call: the file it writes, the children of the
\* root it is given (records: those that are DAT, estimates: their estimated
\* sizes, taken before the tree is indented) and current_size at the call
SavedPart(kids, part_number, size, r) ==
    [path |-> PartPath(part_number),
     part_number |-> part_number,
     children |-> kids,
     records |-> SelectSeq(kids, LAMBDA k : IsDAT(r[k])),
     estimates |-> [j \in 1..Len(SelectSeq(kids, LAMBDA k : IsDAT(r[k]))) |->
                       estimate_element_size(r[SelectSeq(kids, LAMBDA k : IsDAT(r[k]))[j]])],
     size |-> size]

(***************************************************************************)
(* Idle values of the three groups of variables                            *)
(***************************************************************************)
SplitIdle ==
    /\ root = <<>> /\ malformed = FALSE /\ max_size_bytes = 0
    /\ verbose = FALSE /\ pc = "idle" /\ dat_elements = <<>> /\ i = 0
    /\ current_part = 0 /\ current_root = <<>> /\ current_size = 0
    /\ output_files = <<>> /\ saved = <<>>

ExtractIdle == bie = <<>> /\ data = <<>> /\ row = <<>> /\ xpc = "idle"

ExportIdle ==
    /\ input_files = <<>> /\ everbose = FALSE /\ epc = "idle" /\ n = 0
    /\ temp_dir = [exists |-> FALSE, files |-> <<>>] /\ xml_files = <<>>
    /\ all_data = <<>> /\ csv = <<>> /\ csv0 = <<>> /\ result = "none"

(***************************************************************************)
(* XMLSplitter.split                                                       *)
(***************************************************************************)
\* XMLSplitter.__init__ on an input file: the state before split() is called
SplitInit ==
    /\ malformed \in BOOLEAN
    /\ root \in (IF malformed THEN {<<>>} ELSE SeqsUpTo(ChildKinds, MaxChildren))
    /\ \E max_size_kb \in MaxSizeKbs : max_size_bytes = KbToBytes(max_size_kb)
    /\ verbose \in BOOLEAN
    /\ pc = "start"
    /\ dat_elements = <<>> /\ i = 0 /\ current_part = 0
    /\ current_root = <<>> /\ current_size = 0
    /\ output_files = <<>> /\ saved = <<>>

\* ET.parse raises: split() ends with the error, nothing is written
SplitParseError ==
    /\ pc = "start" /\ malformed
    /\ pc' = "raised"
    /\ UNCHANGED <<root, malformed, max_size_bytes, verbose, dat_elements, i,
                   current_part, current_root, current_size, output_files, saved>>

\* the statements of split() before the loop
SplitBegin ==
    /\ pc = "start" /\ ~malformed
    /\ dat_elements' = find_dat_elements(root)
    /\ output_files' = <<>>
    /\ current_part' = 1
    /\ current_root' = create_base_structure(root)
    /\ current_size' = estimate_root_size(root, create_base_structure(root))
    /\ i' = 1
    /\ pc' = "loop"
    /\ UNCHANGED <<root, malformed, max_size_bytes, verbose, saved>>

\* one iteration of the loop over dat_elements
LoopBody ==
    LET dat_element == dat_elements[i]
        element_size == estimate_element_size(root[dat_element])
        seal == MustSeal(current_size, element_size, max_size_bytes, Len(current_root))
        \* save_part indents the tree it writes
        root1 == IF seal THEN Indent(root, current_root) ELSE root
        part1 == IF seal THEN NextPart(current_part) ELSE current_part
        croot1 == IF seal THEN create_base_structure(root1) ELSE current_root
        size1 == IF seal THEN estimate_root_size(root1, croot1) ELSE current_size
    IN  /\ saved' = IF seal
                    THEN Append(saved, SavedPart(current_root, current_part, current_size, root))
                    ELSE saved
        /\ output_files' = IF seal
                           THEN Append(output_files, PartPath(current_part))
                           ELSE output_files
        /\ root' = root1
        /\ current_part' = part1
        /\ current_root' = Append(croot1, dat_element)
        /\ current_size' = size1 + element_size
        /\ i' = i + 1
        /\ UNCHANGED <<malformed, max_size_bytes, verbose, pc, dat_elements>>

\* the loop of the branch that shows a progress bar
SplitStepVerbose ==
    /\ pc = "loop" /\ verbose /\ i <= Len(dat_elements)
    /\ LoopBody

\* the loop of the silent branch
SplitStepSilent ==
    /\ pc = "loop" /\ ~verbose /\ i <= Len(dat_elements)
    /\ LoopBody

\* the statements after the loop: the last part is saved, split() returns
SplitFinish ==
    /\ pc = "loop" /\ i > Len(dat_elements)
    /\ LET last == HasElements(Len(current_root))
       IN  /\ saved' = IF last
                       THEN Append(saved, SavedPart(current_root, current_part, current_size, root))
                       ELSE saved
           /\ output_files' = IF last
                              THEN Append(output_files, PartPath(current_part))
                              ELSE output_files
           /\ root' = IF last THEN Indent(root, current_root) ELSE root
    /\ pc' = "returned"
    /\ UNCHANGED <<malformed, max_size_bytes, verbose, dat_elements, i,
                   current_part, current_root, current_size>>

Init == SplitInit /\ ExtractIdle /\ ExportIdle

Next ==
    \/ SplitParseError /\ UNCHANGED <<extractVars, exportVars>>
    \/ SplitBegin /\ UNCHANGED <<extractVars, exportVars>>
    \/ SplitStepVerbose /\ UNCHANGED <<extractVars, exportVars>>
    \/ SplitStepSilent /\ UNCHANGED <<extractVars, exportVars>>
    \/ SplitFinish /\ UNCHANGED <<extractVars, exportVars>>

Spec == Init /\ [][Next]_vars

(***************************************************************************)
(* Properties of split()                                                   *)
(***************************************************************************)
\* the DAT children held by the open part
CurrentRecords == SelectSeq(current_root, LAMBDA k : IsDAT(root[k]))

SavedRecords == Flatten([k \in 1..Len(saved) |-> saved[k].records])

\* the estimate split() computed for the record root[p], or would compute
EstimateOf(p) ==
    IF \E k \in 1..Len(saved) : \E j \in 1..Len(saved[k].records) : saved[k].records[j] = p
    THEN LET k == CHOOSE k \in 1..Len(saved) :
                     \E j \in 1..Len(saved[k].records) : saved[k].records[j] = p
             j == CHOOSE j \in 1..Len(saved[k].records) : saved[k].records[j] = p
         IN  saved[k].estimates[j]
    ELSE estimate_element_size(root[p])

\* C1: when split() has returned, the records of the saved parts, in part
\* order then in order inside the part, are exactly the DAT children of the
\* root, in document order.
C1_PartitionCompleteness ==
    pc = "returned" => SavedRecords = find_dat_elements(root)

\* C2: every part that save_part writes holds at least one record.
C2_PartitionMinimality ==
    \A k \in 1..Len(saved) : Len(saved[k].records) >= 1

\* C3: the accumulated estimated size of every saved part, when its last
\* record was appended, is at most max_size_bytes, or the part holds the
\* wrapper and exactly one record.
C3_SizeBound ==
    \A k \in 1..Len(saved) :
        Len(saved[k].records) >= 1 =>
            \/ saved[k].size <= max_size_bytes
            \/ Len(saved[k].records) = 1

\* C4: when split() has returned, a record whose own estimate exceeds
\* max_size_bytes is in exactly one saved part (and split() did return).
C4_OversizedTolerance ==
    /\ (pc = "raised" => malformed)
    /\ pc = "returned" =>
          \A p \in 1..Len(root) :
              (IsDAT(root[p]) /\ EstimateOf(p) > max_size_bytes) =>
                  Cardinality({k \in 1..Len(saved) :
                      \E j \in 1..Len(saved[k].records) : saved[k].records[j] = p}) = 1

\* C5: the part numbers given to save_part are 1, 2, ..., N in the order of
\* the calls, the returned paths are those of parts 1..N in that order, and
\* every record of part k precedes every record of part k+1 in the document.
C5_PartitionMonotonicity ==
    /\ Len(output_files) = Len(saved)
    /\ \A k \in 1..Len(saved) :
          /\ saved[k].part_number = k
          /\ output_files[k] = saved[k].path
          /\ output_files[k] = PartPath(k)
    /\ \A k \in 1..(Len(saved) - 1) :
          \A a \in 1..Len(saved[k].records), b \in 1..Len(saved[k + 1].records) :
              saved[k].records[a] < saved[k + 1].records[b]

C5_Witness ==
    /\ pc = "returned"
    /\ Len(saved) >= 3
    /\ \A k \in 1..Len(saved) : Len(saved[k].records) >= 1

\* C10: in every iteration the open part is sealed before the next record r
\* exactly when current_size + estimate(r) + 100 > max_size_bytes and the part
\* already holds a record; then the sealed part's size plus estimate(r) plus
\* 100 exceeds max_size_bytes; and after the append current_size is the
\* wrapper-only estimate plus the estimates of the records of the open part.
C10_GreedySealing ==
    [][ (pc = "loop" /\ i <= Len(dat_elements)) =>
          LET r == root[dat_elements[i]]
              sealed == Len(saved') = Len(saved) + 1
          IN  /\ sealed <=>
                    /\ current_size + estimate_element_size(r) + 100 > max_size_bytes
                    /\ Len(CurrentRecords) >= 1
              /\ sealed =>
                    saved'[Len(saved')].size + estimate_element_size(r) + 100 > max_size_bytes
              /\ current_size' =
                    estimate_root_size(root', create_base_structure(root'))
                    + SumSeq([j \in 1..Len(CurrentRecords') |->
                                 estimate_element_size(root'[CurrentRecords'[j]])])
      ]_vars

(***************************************************************************)
(* CatastroCSVExporter: the BIE element and extract_bie_data               *)
(*                                                                         *)
(* An element tree is the sequence of its elements in document order; an   *)
(* element is [path, has_text, text]: path is the sequence of tags from    *)
(* the BIE (the BIE itself has the empty path and is element 1), has_text  *)
(* is FALSE when .text is None, text is a sequence of characters.  0       *)
(* stands for None where an element is expected.                           *)
(***************************************************************************)
FIELDS ==
    << "TV", "NV", "PNP", "PLP", "BQ", "ES", "PT", "PU",
       "PCA_CAR_CDC1_CDC2",
       "PCA", "CAR", "CDC1", "CDC2",
       "CPO", "CPA", "KM", "ESC", "PLA", "PUE", "POL", "PAR",
       "SNP", "SLP", "KK" >>

Whitespace == {" ", "\n", "\t"}

RECURSIVE LStrip(_)
LStrip(t) == IF t # <<>> /\ Head(t) \in Whitespace THEN LStrip(Tail(t)) ELSE t

RECURSIVE RStrip(_)
RStrip(t) ==
    IF t # <<>> /\ t[Len(t)] \in Whitespace THEN RStrip(SubSeq(t, 1, Len(t) - 1)) ELSE t

\* str.strip()
Strip(t) == RStrip(LStrip(t))

IsPrefix(p, q) == Len(p) <= Len(q) /\ SubSeq(q, 1, Len(p)) = p

\* element.find(tag): the first child of element e with that tag, or None
Find(tree, e, tag) ==
    LET hits == {k \in 1..Len(tree) : tree[k].path = Append(tree[e].path, tag)}
    IN  IF hits = {} THEN 0 ELSE CHOOSE k \in hits : \A h \in hits : k <= h

\* element.find('.//tag'): the first descendant of e with that tag, or None
FindDeep(tree, e, tag) ==
    LET hits == {k \in 1..Len(tree) :
                    /\ Len(tree[k].path) > Len(tree[e].path)
                    /\ IsPrefix(tree[e].path, tree[k].path)
                    /\ tree[k].path[Len(tree[k].path)] = tag}
    IN  IF hits = {} THEN 0 ELSE CHOOSE k \in hits : \A h \in hits : k <= h

\* None where the empty string is due
get_text_none_default(tree, element, tag) ==
    IF element = 0 THEN <<"None">>
    ELSE LET child == Find(tree, element, tag)
         IN  IF child # 0 /\ tree[child].has_text /\ tree[child].text # <<>>
             THEN Strip(tree[child].text)
             ELSE <<>>

get_text(tree, element, tag) ==
    IF element = 0 THEN <<>>
    ELSE LET child == Find(tree, element, tag)
         IN  IF child # 0 /\ tree[child].has_text /\ tree[child].text # <<>>
             THEN Strip(tree[child].text)
             ELSE <<>>

\* a dict is the sequence of its <<key, value>> items in insertion order
DictHas(d, key) == \E k \in 1..Len(d) : d[k][1] = key

DictGet(d, key) == d[CHOOSE k \in 1..Len(d) : d[k][1] = key][2]

\* d[key] = value
DictSet(d, key, value) ==
    IF DictHas(d, key)
    THEN [k \in 1..Len(d) |-> IF d[k][1] = key THEN <<key, value>> ELSE d[k]]
    ELSE Append(d, <<key, value>>)

DictKeys(d) == [k \in 1..Len(d) |-> d[k][1]]

RECURSIVE DictSetAll(_, _)
\* the assignments items, made in order
DictSetAll(d, items) ==
    IF items = <<>> THEN d
    ELSE DictSetAll(DictSet(d, Head(items)[1], Head(items)[2]), Tail(items))

extract_bie_data(tree) ==
    LET ibi == Find(tree, 1, "IBI")
        rca == IF ibi # 0 THEN Find(tree, ibi, "RCA") ELSE 0
        d1 == DictSetAll(<<>>, << <<"PCA", get_text(tree, rca, "PCA")>>,
                                  <<"CAR", get_text(tree, rca, "CAR")>>,
                                  <<"CDC1", get_text(tree, rca, "CDC1")>>,
                                  <<"CDC2", get_text(tree, rca, "CDC2")>> >>)
        d2 == DictSet(d1, "PCA_CAR_CDC1_CDC2",
                      DictGet(d1, "PCA") \o DictGet(d1, "CAR")
                      \o DictGet(d1, "CDC1") \o DictGet(d1, "CDC2"))
        dir_section == FindDeep(tree, 1, "DIR")
        loint == FindDeep(tree, 1, "LOINT")
        cpp == FindDeep(tree, 1, "CPP")
        lec == FindDeep(tree, 1, "LEC")
        elc == IF lec # 0 THEN FindDeep(tree, lec, "ELC") ELSE 0
        dt == Find(tree, 1, "DT")
        lcons == IF dt # 0 THEN FindDeep(tree, dt, "LCONS") ELSE 0
    IN  DictSetAll(d2, << <<"TV", get_text(tree, dir_section, "TV")>>,
                          <<"NV", get_text(tree, dir_section, "NV")>>,
                          <<"PNP", get_text(tree, dir_section, "PNP")>>,
                          <<"PLP", get_text(tree, dir_section, "PLP")>>,
                          <<"BQ", get_text(tree, dir_section, "BQ")>>,
                          <<"KM", get_text(tree, dir_section, "KM")>>,
                          <<"ES", get_text(tree, loint, "ES")>>,
                          <<"PT", get_text(tree, loint, "PT")>>,
                          <<"PU", get_text(tree, loint, "PU")>>,
                          <<"CPO", get_text(tree, cpp, "CPO")>>,
                          <<"CPA", get_text(tree, cpp, "CPA")>>,
                          <<"ESC", get_text(tree, elc, "ESC")>>,
                          <<"PLA", get_text(tree, elc, "PLA")>>,
                          <<"PUE", get_text(tree, elc, "PUE")>>,
                          <<"POL", get_text(tree, dt, "POL")>>,
                          <<"PAR", get_text(tree, dt, "PAR")>>,
                          <<"SNP", get_text(tree, lcons, "SNP")>>,
                          <<"SLP", get_text(tree, lcons, "SLP")>>,
                          <<"KK", get_text(tree, 1, "KK")>> >>)

\* csv.DictWriter(f, fieldnames=FIELDS).writerow(rowdict): the values in the
\* order of fieldnames, '' for a missing key
DictWriterRow(rowdict) ==
    [k \in 1..Len(FIELDS) |->
        IF DictHas(rowdict, FIELDS[k]) THEN DictGet(rowdict, FIELDS[k]) ELSE <<>>]

(***************************************************************************)
(* The BIE elements the extractor is run on                                *)
(***************************************************************************)
TextVariants == {"absent", "none", "blank", "padded", "plain"}

\* the leaf <tag>value</tag> under path, in one of the variants
Leaf(path, tag, value, variant) ==
    CASE variant = "absent" -> <<>>
      [] variant = "none"   -> <<[path |-> Append(path, tag), has_text |-> FALSE, text |-> <<>>]>>
      [] variant = "blank"  -> <<[path |-> Append(path, tag), has_text |-> TRUE, text |-> <<" ", "\n">>]>>
      [] variant = "padded" -> <<[path |-> Append(path, tag), has_text |-> TRUE, text |-> <<"\n", " ", value, " ">>]>>
      [] variant = "plain"  -> <<[path |-> Append(path, tag), has_text |-> TRUE, text |-> <<value>>]>>

Node(path) == <<[path |-> path, has_text |-> FALSE, text |-> <<>>]>>

RECURSIVE Leaves(_, _, _, _)
Leaves(path, tags, suffix, variant) ==
    IF tags = <<>> THEN <<>>
    ELSE Leaf(path, Head(tags), Head(tags) \o suffix, variant)
         \o Leaves(path, Tail(tags), suffix, variant)

RCATags == <<"PCA", "CAR", "CDC1", "CDC2">>
DIRTags == <<"TV", "NV", "PNP", "PLP", "BQ", "KM">>
LOINTTags == <<"ES", "PT", "PU">>
CPPTags == <<"CPO", "CPA">>
ELCTags == <<"ESC", "PLA", "PUE">>
DTTags == <<"POL", "PAR">>
LCONSTags == <<"SNP", "SLP">>

IBIShapes == {"absent", "empty", "full", "stray"}
DIRShapes == {"absent", "one", "two"}
LECShapes == {"absent", "empty", "full", "stray"}
DTShapes == {"absent", "flat", "full", "stray"}

BIEShapes ==
    [ibi : IBIShapes, dir : DIRShapes, loint : BOOLEAN, cpp : BOOLEAN,
     lec : LECShapes, dt : DTShapes, kk : BOOLEAN, text : TextVariants]

\* the element tree of a BIE of shape sh
MakeBIE(sh) ==
    Node(<<>>)
    \o (CASE sh.ibi = "absent" -> <<>>
          [] sh.ibi = "empty"  -> Node(<<"IBI">>)
          [] sh.ibi = "full"   -> Node(<<"IBI">>) \o Node(<<"IBI", "RCA">>)
                                  \o Leaves(<<"IBI", "RCA">>, RCATags, "", sh.text)
          [] sh.ibi = "stray"  -> Node(<<"RCA">>) \o Leaves(<<"RCA">>, RCATags, "", sh.text)
                                  \o Node(<<"IBI">>))
    \o (CASE sh.dt = "absent" -> <<>>
          [] sh.dt = "flat"   -> Node(<<"DT">>) \o Leaves(<<"DT">>, DTTags, "", sh.text)
          [] sh.dt = "full"   -> Node(<<"DT">>) \o Leaves(<<"DT">>, DTTags, "", sh.text)
                                 \o Node(<<"DT", "LOCS">>) \o Node(<<"DT", "LOCS", "LCONS">>)
                                 \o Leaves(<<"DT", "LOCS", "LCONS">>, LCONSTags, "", sh.text)
          [] sh.dt = "stray"  -> Node(<<"LCONS">>) \o Leaves(<<"LCONS">>, LCONSTags, "", sh.text))
    \o (IF sh.dir = "absent" /\ ~sh.loint /\ ~sh.cpp THEN <<>> ELSE Node(<<"LOCS">>))
    \o (IF sh.dir = "absent" THEN <<>>
        ELSE Node(<<"LOCS", "DIR">>) \o Leaves(<<"LOCS", "DIR">>, DIRTags, "", sh.text))
    \o (IF sh.loint THEN Node(<<"LOCS", "LOINT">>)
                         \o Leaves(<<"LOCS", "LOINT">>, LOINTTags, "", sh.text)
        ELSE <<>>)
    \o (IF sh.cpp THEN Node(<<"LOCS", "CPP">>)
                       \o Leaves(<<"LOCS", "CPP">>, CPPTags, "", sh.text)
        ELSE <<>>)
    \o (IF sh.dir = "two"
        THEN Node(<<"LOCS2">>) \o Node(<<"LOCS2", "DIR">>)
             \o Leaves(<<"LOCS2", "DIR">>, DIRTags, "2", "plain")
        ELSE <<>>)
    \o (CASE sh.lec = "absent" -> <<>>
          [] sh.lec = "empty"  -> Node(<<"LEC">>)
          [] sh.lec = "full"   -> Node(<<"LEC">>) \o Node(<<"LEC", "ELC">>)
                                  \o Leaves(<<"LEC", "ELC">>, ELCTags, "", sh.text)
          [] sh.lec = "stray"  -> Node(<<"ELC">>) \o Leaves(<<"ELC">>, ELCTags, "", sh.text))
    \o (IF sh.kk THEN Leaf(<<>>, "KK", "KK", sh.text) ELSE <<>>)

ExtractInit ==
    /\ \E sh \in BIEShapes : bie = MakeBIE(sh)
    /\ data = <<>> /\ row = <<>> /\ xpc = "start"

\* data = self.extract_bie_data(bie)
Extract ==
    /\ xpc = "start"
    /\ data' = extract_bie_data(bie)
    /\ xpc' = "extracted"
    /\ UNCHANGED <<bie, row>>

\* writer.writerow(data)
WriteRow ==
    /\ xpc = "extracted"
    /\ row' = DictWriterRow(data)
    /\ xpc' = "written"
    /\ UNCHANGED <<bie, data>>

InitExtract == SplitIdle /\ ExtractInit /\ ExportIdle

NextExtract ==
    \/ Extract /\ UNCHANGED <<splitVars, exportVars>>
    \/ WriteRow /\ UNCHANGED <<splitVars, exportVars>>

SpecExtract == InitExtract /\ [][NextExtract]_vars

(***************************************************************************)
(* Properties of extract_bie_data                                          *)
(***************************************************************************)
SeqToSet(q) == {q[k] : k \in 1..Len(q)}

HasPath(tree, path) == \E k \in 1..Len(tree) : tree[k].path = path

\* an element tagged tag lies somewhere below an element tagged above
\* (above = "" : anywhere below the BIE)
HasBelow(tree, above, tag) ==
    \E k \in 1..Len(tree) :
        /\ tree[k].path # <<>>
        /\ tree[k].path[Len(tree[k].path)] = tag
        /\ above # "" => \E a \in 1..(Len(tree[k].path) - 1) : tree[k].path[a] = above

AllEmpty(d, keys) == \A k \in 1..Len(keys) : DictHas(d, keys[k]) /\ DictGet(d, keys[k]) = <<>>

\* every field anchored to a substructure the BIE lacks is the empty string
AbsentAnchorsGiveEmpty ==
    /\ ~HasPath(bie, <<"IBI", "RCA">>) => AllEmpty(data, RCATags \o <<"PCA_CAR_CDC1_CDC2">>)
    /\ ~HasBelow(bie, "", "DIR") => AllEmpty(data, DIRTags)
    /\ ~HasBelow(bie, "", "LOINT") => AllEmpty(data, LOINTTags)
    /\ ~HasBelow(bie, "", "CPP") => AllEmpty(data, CPPTags)
    /\ ~HasBelow(bie, "LEC", "ELC") => AllEmpty(data, ELCTags)
    /\ ~HasPath(bie, <<"DT">>) => AllEmpty(data, DTTags)
    /\ ~(HasPath(bie, <<"DT">>) /\ HasBelow(bie, "DT", "LCONS")) => AllEmpty(data, LCONSTags)
    /\ ~HasPath(bie, <<"KK">>) => AllEmpty(data, <<"KK">>)

\* the order in which extract_bie_data assigns the keys
AssignmentOrder ==
    << "PCA", "CAR", "CDC1", "CDC2", "PCA_CAR_CDC1_CDC2",
       "TV", "NV", "PNP", "PLP", "BQ", "KM", "ES", "PT", "PU",
       "CPO", "CPA", "ESC", "PLA", "PUE", "POL", "PAR", "SNP", "SLP", "KK" >>

\* C6 as claimed: for every BIE the mapping extract_bie_data returns has
\* exactly the 24 names of FIELDS as its fields, in FIELDS order, and every
\* field anchored to an absent substructure is the empty string.
C6_TotalFieldsInFieldsOrder ==
    xpc # "start" =>
        /\ DictKeys(data) = FIELDS
        /\ AbsentAnchorsGiveEmpty

\* C6 as amended: for every BIE the mapping has exactly the 24 names of
\* FIELDS as its keys, each once, in the order the code assigns them (not the
\* order of FIELDS); every field anchored to an absent substructure is the
\* empty string; the line DictWriter writes holds the 24 values in FIELDS
\* order.
C6_TotalFields ==
    xpc # "start" =>
        /\ SeqToSet(DictKeys(data)) = SeqToSet(FIELDS)
        /\ Len(data) = Len(FIELDS)
        /\ Len(FIELDS) = 24
        /\ DictKeys(data) = AssignmentOrder
        /\ AbsentAnchorsGiveEmpty
        /\ xpc = "written" =>
              /\ Len(row) = Len(FIELDS)
              /\ \A k \in 1..Len(FIELDS) : row[k] = DictGet(data, FIELDS[k])

C6_Witness ==
    /\ xpc = "written"
    /\ ~HasPath(bie, <<"IBI", "RCA">>) /\ HasBelow(bie, "", "RCA")
    /\ ~HasBelow(bie, "LEC", "ELC") /\ HasPath(bie, <<"LEC">>)
    /\ ~HasPath(bie, <<"DT">>)
    /\ row[1] = <<"TV">> /\ row[9] = <<>> /\ row[24] = <<"KK">>

(***************************************************************************)
(* CatastroCSVExporter.export                                              *)
(*                                                                         *)
(* A file name is a sequence of characters.  An XML document is            *)
(* [wellformed, bies]: bies are the BIE elements root.findall('.//BIE')    *)
(* yields, in document order.  An input file is [name, doc, corrupt,       *)
(* members]: doc is its content when it is read as XML, members its        *)
(* members (each [name, doc]) when it is opened as a zip, corrupt says     *)
(* that zipfile.ZipFile rejects it.  A file on disk is <<>> when absent,   *)
(* <<content>> otherwise; the temporary directory is [exists, files],      *)
(* files the sequence of [name, doc] it holds.                             *)
(***************************************************************************)
LowerChar(c) ==
    CASE c = "X" -> "x" [] c = "M" -> "m" [] c = "L" -> "l"
      [] c = "Z" -> "z" [] c = "I" -> "i" [] c = "P" -> "p"
      [] c = "A" -> "a" [] c = "B" -> "b"
      [] OTHER -> c

\* str.lower()
Lower(name) == [k \in 1..Len(name) |-> LowerChar(name[k])]

EndsWith(name, suffix) ==
    /\ Len(name) >= Len(suffix)
    /\ SubSeq(name, Len(name) - Len(suffix) + 1, Len(name)) = suffix

\* Path.suffix: the name from its last dot on
Suffix(name) ==
    LET dots == {k \in 2..Len(name) : name[k] = "."}
    IN  IF dots = {} THEN <<>>
        ELSE SubSeq(name, CHOOSE k \in dots : \A h \in dots : h <= k, Len(name))

DotXml == <<".", "x", "m", "l">>
DotZip == <<".", "z", "i", "p">>

BieFull == MakeBIE([ibi |-> "full", dir |-> "one", loint |-> TRUE, cpp |-> TRUE,
                    lec |-> "full", dt |-> "full", kk |-> TRUE, text |-> "padded"])
\* the cadastral reference of BieFull again, the rest of the record differs
BieSameKey == MakeBIE([ibi |-> "full", dir |-> "absent", loint |-> FALSE, cpp |-> TRUE,
                       lec |-> "empty", dt |-> "flat", kk |-> FALSE, text |-> "plain"])
BieNoKey == MakeBIE([ibi |-> "empty", dir |-> "two", loint |-> FALSE, cpp |-> FALSE,
                     lec |-> "absent", dt |-> "absent", kk |-> TRUE, text |-> "plain"])

DocA == [wellformed |-> TRUE, bies |-> <<BieFull>>]
DocB == [wellformed |-> TRUE, bies |-> <<BieNoKey, BieSameKey>>]
DocNoBie == [wellformed |-> TRUE, bies |-> <<>>]
DocBad == [wellformed |-> FALSE, bies |-> <<>>]

NameAXml == <<"a", ".", "x", "m", "l">>
NameBXML == <<"B", ".", "X", "M", "L">>
NameBadXml == <<"b", "a", "d", ".", "x", "m", "l">>
NameReadme == <<"r", ".", "t", "x", "t">>
NameZip == <<"z", ".", "z", "i", "p">>
NameZIP == <<"Z", ".", "Z", "I", "P">>
NameCorruptZip == <<"c", ".", "z", "i", "p">>

InputKinds ==
    { [name |-> NameAXml, doc |-> DocA, corrupt |-> TRUE, members |-> <<>>],
      [name |-> NameBXML, doc |-> DocB, corrupt |-> TRUE, members |-> <<>>],
      [name |-> NameBadXml, doc |-> DocBad, corrupt |-> TRUE, members |-> <<>>],
      [name |-> NameReadme, doc |-> DocBad, corrupt |-> TRUE, members |-> <<>>],
      [name |-> NameZip, doc |-> DocBad, corrupt |-> FALSE,
       members |-> << [name |-> NameAXml, doc |-> DocB],
                      [name |-> NameReadme, doc |-> DocBad],
                      [name |-> NameBXML, doc |-> DocNoBie] >>],
      [name |-> NameZIP, doc |-> DocBad, corrupt |-> FALSE,
       members |-> << [name |-> NameAXml, doc |-> DocA],
                      [name |-> NameBadXml, doc |-> DocBad] >>],
      [name |-> NameCorruptZip, doc |-> DocBad, corrupt |-> TRUE, members |-> <<>>] }

\* the output file before export(): absent, or left by an earlier run
OldCsvs == {<<>>, <<[header |-> FIELDS, rows |-> <<>>, complete |-> TRUE]>>}

\* zip_ref.extract(name, self.temp_dir): the member is written, over a file
\* of that name when there is one
ExtractMember(files, member) ==
    IF \E k \in 1..Len(files) : files[k].name = member.name
    THEN [k \in 1..Len(files) |-> IF files[k].name = member.name THEN member ELSE files[k]]
    ELSE Append(files, member)

RECURSIVE ExtractAll(_, _)
\* the loop of extract_zip over the members: <<files of temp_dir, xml_files>>
ExtractAll(files, members) ==
    IF members = <<>> THEN <<files, <<>>>>
    ELSE IF EndsWith(Lower(Head(members).name), DotXml)
         THEN LET rest == ExtractAll(ExtractMember(files, Head(members)), Tail(members))
              IN  <<rest[1], <<[temp |-> TRUE, name |-> Head(members).name, doc |-> DocBad]>> \o rest[2]>>
         ELSE ExtractAll(files, Tail(members))

\* extract_zip: raised when ZipFile rejects the archive
extract_zip(files, zip) ==
    IF zip.corrupt
    THEN [raised |-> TRUE, files |-> files, xml_files |-> <<>>]
    ELSE [raised |-> FALSE,
          files |-> ExtractAll(files, zip.members)[1],
          xml_files |-> ExtractAll(files, zip.members)[2]]

\* the document ET.parse reads at a path of xml_files
ReadDoc(td, path) ==
    IF path.temp
    THEN td.files[CHOOSE k \in 1..Len(td.files) : td.files[k].name = path.name].doc
    ELSE path.doc

\* a malformed document is passed over
process_xml_skips(doc) ==
    IF ~doc.wellformed
    THEN [raised |-> FALSE, results |-> <<>>]
    ELSE [raised |-> FALSE,
          results |-> [k \in 1..Len(doc.bies) |-> extract_bie_data(doc.bies[k])]]

\* process_xml: raised when ET.parse rejects the document
process_xml(doc) ==
    IF ~doc.wellformed
    THEN [raised |-> TRUE, results |-> <<>>]
    ELSE [raised |-> FALSE,
          results |-> [k \in 1..Len(doc.bies) |-> extract_bie_data(doc.bies[k])]]

RECURSIVE ExtendDedup(_, _)
\* rows whose PCA_CAR_CDC1_CDC2 is already present are dropped
ExtendDedup(list, more) ==
    IF more = <<>> THEN list
    ELSE IF \E k \in 1..Len(list) :
                DictGet(list[k], "PCA_CAR_CDC1_CDC2") = DictGet(Head(more), "PCA_CAR_CDC1_CDC2")
         THEN ExtendDedup(list, Tail(more))
         ELSE ExtendDedup(Append(list, Head(more)), Tail(more))

\* all_data.extend(data)
Extend(list, more) == list \o more

\* the finally clause reached only on a return
FinallyOnReturnOnly(td, how) ==
    IF how = "return" /\ td.exists THEN [exists |-> FALSE, files |-> <<>>] ELSE td

\* the finally clause of export(), reached by a return and by a raise alike:
\* shutil.rmtree(self.temp_dir) when it exists
Finally(td, how) ==
    IF td.exists THEN [exists |-> FALSE, files |-> <<>>] ELSE td

\* writer.writeheader(); writer.writerows(all_data)
WriteCsv(rows) ==
    [header |-> FIELDS,
     rows |-> [k \in 1..Len(rows) |-> DictWriterRow(rows[k])],
     complete |-> TRUE]

ExportInit ==
    /\ input_files \in SeqsUpTo(InputKinds, MaxInputs)
    /\ everbose \in BOOLEAN
    /\ csv0 \in OldCsvs
    /\ csv = csv0
    /\ epc = "start" /\ n = 0
    /\ temp_dir = [exists |-> FALSE, files |-> <<>>]
    /\ xml_files = <<>> /\ all_data = <<>> /\ result = "none"

\* self.temp_dir = Path(tempfile.mkdtemp())
ExportBegin ==
    /\ epc = "start"
    /\ temp_dir' = [exists |-> TRUE, files |-> <<>>]
    /\ xml_files' = <<>>
    /\ n' = 1
    /\ epc' = "collect"
    /\ UNCHANGED <<input_files, everbose, all_data, csv, csv0, result>>

\* one iteration of the loop over self.input_files
ExportCollect ==
    /\ epc = "collect" /\ n <= Len(input_files)
    /\ LET input_file == input_files[n]
           zip == extract_zip(temp_dir.files, input_file)
       IN  IF Lower(Suffix(input_file.name)) = DotZip
           THEN IF zip.raised
                THEN /\ temp_dir' = Finally(temp_dir, "raise")
                     /\ result' = "raise BadZipFile"
                     /\ epc' = "done"
                     /\ UNCHANGED <<xml_files, n>>
                ELSE /\ temp_dir' = [temp_dir EXCEPT !.files = zip.files]
                     /\ xml_files' = xml_files \o zip.xml_files
                     /\ n' = n + 1
                     /\ UNCHANGED <<epc, result>>
           ELSE IF Lower(Suffix(input_file.name)) = DotXml
                THEN /\ xml_files' = Append(xml_files,
                            [temp |-> FALSE, name |-> input_file.name, doc |-> input_file.doc])
                     /\ n' = n + 1
                     /\ UNCHANGED <<temp_dir, epc, result>>
                ELSE /\ n' = n + 1
                     /\ UNCHANGED <<temp_dir, xml_files, epc, result>>
    /\ UNCHANGED <<input_files, everbose, all_data, csv, csv0>>

\* if not xml_files: return 1
ExportNoXml ==
    /\ epc = "collect" /\ n > Len(input_files)
    /\ xml_files = <<>>
    /\ temp_dir' = Finally(temp_dir, "return")
    /\ result' = "return 1"
    /\ epc' = "done"
    /\ UNCHANGED <<input_files, everbose, n, xml_files, all_data, csv, csv0>>

\* all_data = []
ExportFound ==
    /\ epc = "collect" /\ n > Len(input_files)
    /\ xml_files # <<>>
    /\ all_data' = <<>>
    /\ n' = 1
    /\ epc' = "process"
    /\ UNCHANGED <<input_files, everbose, temp_dir, xml_files, csv, csv0, result>>

\* one iteration of the loop over xml_files
ProcessBody ==
    LET got == process_xml(ReadDoc(temp_dir, xml_files[n]))
    IN  IF got.raised
        THEN /\ temp_dir' = Finally(temp_dir, "raise")
             /\ result' = "raise ParseError"
             /\ epc' = "done"
             /\ UNCHANGED <<all_data, n>>
        ELSE /\ all_data' = Extend(all_data, got.results)
             /\ n' = n + 1
             /\ UNCHANGED <<temp_dir, epc, result>>

ExportProcessVerbose ==
    /\ epc = "process" /\ everbose /\ n <= Len(xml_files)
    /\ ProcessBody
    /\ UNCHANGED <<input_files, everbose, xml_files, csv, csv0>>

ExportProcessSilent ==
    /\ epc = "process" /\ ~everbose /\ n <= Len(xml_files)
    /\ ProcessBody
    /\ UNCHANGED <<input_files, everbose, xml_files, csv, csv0>>

\* the CSV is written; return 0
ExportWrite ==
    /\ epc = "process" /\ n > Len(xml_files)
    /\ csv' = <<WriteCsv(all_data)>>
    /\ temp_dir' = Finally(temp_dir, "return")
    /\ result' = "return 0"
    /\ epc' = "done"
    /\ UNCHANGED <<input_files, everbose, n, xml_files, all_data, csv0>>

\* open() or a write raises OSError: the file is untouched when open()
\* failed, truncated after some of the lines otherwise
ExportWriteError ==
    /\ epc = "process" /\ n > Len(xml_files)
    /\ \E written \in {"nothing", "header"} :
          csv' = IF written = "nothing" THEN csv
                 ELSE <<[header |-> FIELDS, rows |-> <<>>, complete |-> FALSE]>>
    /\ temp_dir' = Finally(temp_dir, "raise")
    /\ result' = "raise OSError"
    /\ epc' = "done"
    /\ UNCHANGED <<input_files, everbose, n, xml_files, all_data, csv0>>

InitExport == SplitIdle /\ ExtractIdle /\ ExportInit

NextExport ==
    \/ ExportBegin /\ UNCHANGED <<splitVars, extractVars>>
    \/ ExportCollect /\ UNCHANGED <<splitVars, extractVars>>
    \/ ExportNoXml /\ UNCHANGED <<splitVars, extractVars>>
    \/ ExportFound /\ UNCHANGED <<splitVars, extractVars>>
    \/ ExportProcessVerbose /\ UNCHANGED <<splitVars, extractVars>>
    \/ ExportProcessSilent /\ UNCHANGED <<splitVars, extractVars>>
    \/ ExportWrite /\ UNCHANGED <<splitVars, extractVars>>
    \/ ExportWriteError /\ UNCHANGED <<splitVars, extractVars>>

SpecExport == InitExport /\ [][NextExport]_vars

(***************************************************************************)
(* Properties of export()                                                  *)
(***************************************************************************)
DedupKey(flat) == DictGet(flat, "PCA_CAR_CDC1_CDC2")

\* the rows of the documents at the first m paths of xml_files, read now
RowsOfFirst(m) ==
    Flatten([j \in 1..m |->
        LET doc == ReadDoc(temp_dir, xml_files[j])
        IN  [k \in 1..Len(doc.bies) |-> extract_bie_data(doc.bies[k])]])

C8_TempDirReleased ==
    /\ epc = "done" => ~temp_dir.exists /\ temp_dir.files = <<>>
    /\ epc \in {"collect", "process"} => temp_dir.exists
    /\ epc = "done" => result \in {"return 0", "return 1", "raise BadZipFile",
                                   "raise ParseError", "raise OSError"}

C8_Witness ==
    /\ epc = "done"
    /\ result = "raise ParseError"
    /\ \E j \in 1..Len(xml_files) : xml_files[j].temp
    /\ ~temp_dir.exists

\* C9: a document that does not parse, at any position of xml_files, ends
\* export() with the parse error; the document is not skipped, and the CSV
\* file is left as it was: it is written only after every document parsed.
C9_MalformedAborts ==
    /\ [](result = "raise ParseError" => csv = csv0 /\ epc = "done")
    /\ [](csv # csv0 => epc = "done" /\ n > Len(xml_files)
                        /\ result \in {"return 0", "raise OSError"})
    /\ [][ (/\ epc = "process" /\ n <= Len(xml_files)
            /\ ~ReadDoc(temp_dir, xml_files[n]).wellformed)
           => (/\ epc' = "done"
               /\ result' = "raise ParseError"
               /\ csv' = csv0
               /\ all_data' = all_data) ]_vars

C9_Witness ==
    /\ epc = "done"
    /\ result = "raise ParseError"
    /\ n > 1
    /\ all_data # <<>>
    /\ csv = csv0

====
